---- MODULE Spec2Model ----
(***************************************************************************)
(* Model of the interactive fuzzy picker of pytest-watcher                 *)
(* (pytest_watcher/picker.py) and of the fuzzy scorer and filter it is     *)
(* driven with (pytest_watcher/fuzzy.py).                                  *)
(*                                                                         *)
(* A string is a sequence of one-character strings.  An Optional value is  *)
(* a sequence of length at most one: None is <<>> and Some(x) is <<x>>.    *)
(***************************************************************************)
EXTENDS Integers, Sequences, FiniteSets, TLC

VARIABLES
    candidates,  \* run_picker / update_state argument: the candidate snapshot
    state,       \* the PickerState object
    pc,          \* position of the running entry point
    dec,         \* locals of the running _read_key_event call
    event,       \* Optional KeyEvent: what the last finished decode call returned
                 \* (in the update_state driver: the event last applied)
    frame,       \* the frame last written by the session loop
    prev_lines,  \* run_picker local prev_lines
    hidden,      \* whether the terminal cursor is hidden
    ret,         \* Optional[str] returned by run_picker
    scripted,    \* TRUE when _read_char is a scripted test double
    script,      \* the tokens the scripted reader replays
    pos,         \* number of script tokens already handed out
    term,        \* the terminal: input mode and what was written to it
    fz,          \* arguments and result of a direct fuzzy_match / fuzzy_filter call
    io           \* the input descriptor and the buffer of a reader read on its own

vars == <<candidates, state, pc, dec, event, frame, prev_lines, hidden, ret,
          scripted, script, pos, term, fz, io>>

(***************************************************************************)
(* Bounds of the model                                                     *)
(***************************************************************************)
MaxQuery == 2      \* longest query typed in a session
MaxPresses == 16   \* most ArrowDown (and ArrowUp) presses of a scripted run
MaxBursts == 2     \* most key presses written to the input descriptor
MaxQ == 2          \* longest query of a direct fuzzy_match / fuzzy_filter call
MaxText == 4       \* longest text of a direct fuzzy_match call
MaxCands == 3      \* longest candidate list of a direct fuzzy_filter call

(***************************************************************************)
(* Generic helpers                                                         *)
(***************************************************************************)
None == <<>>
Some(x) == <<x>>

Min(a, b) == IF a < b THEN a ELSE b
Max(a, b) == IF a > b THEN a ELSE b

Range(s) == {s[i] : i \in 1..Len(s)}

RECURSIVE Repeat(_, _)
Repeat(s, n) == IF n <= 0 THEN <<>> ELSE s \o Repeat(s, n - 1)

(***************************************************************************)
(* fuzzy.py                                                                *)
(***************************************************************************)
\* str.lower() on the characters of the model's alphabet
LowerChar(c) ==
    CASE c = "A" -> "a"
      [] c = "B" -> "b"
      [] c = "C" -> "c"
      [] c = "O" -> "o"
      [] OTHER -> c

\* "U+0130" is the one code point LATIN CAPITAL LETTER I WITH DOT ABOVE:
\* str.lower() turns it into the two code points "i" and "U+0307".
LowerOf(c) == IF c = "U+0130" THEN <<"i", "U+0307">> ELSE <<LowerChar(c)>>

RECURSIVE Lower(_)
Lower(s) == IF s = <<>> THEN <<>> ELSE LowerOf(Head(s)) \o Lower(Tail(s))

\* the characters after which a hit earns the word-boundary bonus
\* (os.sep is "/" on the platforms the picker runs on)
BoundaryChars == {"/", "_"}

\* The for loop of fuzzy_match, from text index ti (0-based) on, carrying
\* qi, score and prev_match_idx.
RECURSIVE MatchScan(_, _, _, _, _, _)
MatchScan(q, t, ti, qi, score, prev) ==
    IF ti >= Len(t)
    THEN [qi |-> qi, score |-> score, prev |-> prev]
    ELSE IF qi < Len(q) /\ t[ti + 1] = q[qi + 1]
         THEN LET consecutive == IF ti = prev + 1 THEN 3 ELSE 0
                  boundary == IF ti = 0 \/ t[ti] \in BoundaryChars
                              THEN 2 ELSE 0
              IN MatchScan(q, t, ti + 1, qi + 1,
                           score + consecutive + boundary, ti)
         ELSE MatchScan(q, t, ti + 1, qi, score, prev)

\* faulty variant: an empty text never matches
fuzzy_match_EmptyTextUnmatched(query, text) ==
    LET scan == MatchScan(Lower(query), Lower(text), 0, 0, 0, -2)
        matched == scan.qi = Len(Lower(query)) /\ text # <<>>
    IN [matched |-> matched,
        score |-> IF matched
                  THEN scan.score + Max(0, Len(Lower(text)) - scan.prev)
                  ELSE scan.score]

\* faulty variant: the tail bonus grows with the position of the last hit
fuzzy_match_TailReversed(query, text) ==
    LET scan == MatchScan(Lower(query), Lower(text), 0, 0, 0, -2)
        matched == scan.qi = Len(Lower(query))
    IN [matched |-> matched,
        score |-> IF matched
                  THEN scan.score + Max(0, scan.prev)
                  ELSE scan.score]

fuzzy_match(query, text) ==
    LET query_lower == Lower(query)
        text_lower == Lower(text)
        scan == MatchScan(query_lower, text_lower, 0, 0, 0, -2)
        matched == scan.qi = Len(query_lower)
    IN [matched |-> matched,
        score |-> IF matched
                  THEN scan.score + Max(0, Len(text_lower) - scan.prev)
                  ELSE scan.score]

\* list.sort(key=score, reverse=True) is stable: x goes behind every entry
\* whose score is at least its own.
\* faulty variant: x goes before the entries of its own score
RECURSIVE InsertByScore_TiesFirst(_, _)
InsertByScore_TiesFirst(sorted, x) ==
    IF sorted = <<>> THEN <<x>>
    ELSE IF Head(sorted).score > x.score
         THEN <<Head(sorted)>> \o InsertByScore_TiesFirst(Tail(sorted), x)
         ELSE <<x>> \o sorted

RECURSIVE InsertByScore(_, _)
InsertByScore(sorted, x) ==
    IF sorted = <<>> THEN <<x>>
    ELSE IF Head(sorted).score >= x.score
         THEN <<Head(sorted)>> \o InsertByScore(Tail(sorted), x)
         ELSE <<x>> \o sorted

RECURSIVE SortByScore(_)
SortByScore(scored) ==
    IF scored = <<>> THEN <<>>
    ELSE InsertByScore(SortByScore(SubSeq(scored, 1, Len(scored) - 1)),
                       scored[Len(scored)])

\* faulty variant: candidates that do not match are scored as well
RECURSIVE Scored_KeepsNonMatches(_, _)
Scored_KeepsNonMatches(query, cands) ==
    IF cands = <<>> THEN <<>>
    ELSE <<[score |-> fuzzy_match(query, Head(cands)).score,
            c |-> Head(cands)]>>
         \o Scored_KeepsNonMatches(query, Tail(cands))

RECURSIVE Scored(_, _)
Scored(query, cands) ==
    IF cands = <<>> THEN <<>>
    ELSE LET m == fuzzy_match(query, Head(cands))
         IN (IF m.matched THEN <<[score |-> m.score, c |-> Head(cands)]>>
             ELSE <<>>) \o Scored(query, Tail(cands))

\* faulty variant: the empty query is scored and sorted like any other
fuzzy_filter_SortsEmptyQuery(query, cands) ==
    LET sorted == SortByScore(Scored(query, cands))
    IN [i \in 1..Len(sorted) |-> sorted[i].c]

fuzzy_filter(query, cands) ==
    IF query = <<>> THEN cands
    ELSE LET sorted == SortByScore(Scored(query, cands))
         IN [i \in 1..Len(sorted) |-> sorted[i].c]

(***************************************************************************)
(* picker.py: constants, input units and key events                        *)
(***************************************************************************)
MAX_VISIBLE_RESULTS == 15
_ESC_READ_RETRIES == 4

\* what read_char() can return: None ("no data") or one character
NoData == "None"
ESC == "ESC"    \* "\x1b"
CR == "CR"      \* "\r"
LF == "LF"      \* "\n"
DEL == "DEL"    \* "\x7f"
BS == "BS"      \* "\x08"
SOH == "SOH"    \* "\x01", a control character the decoder ignores

\* the characters of the model's alphabet for which str.isprintable() holds
Printable == {"a", "u", "[", "O", "A", "B", "C"}

\* every unit a decode call is fed with
Units == Printable \cup {ESC, CR, LF, DEL, BS, SOH}

\* the units a terminal delivers during a session
SessionUnits == {"a", "u", "[", "A", "B", ESC, CR, LF, DEL, SOH}

KEY_ENTER == "enter"
KEY_ESCAPE == "escape"
KEY_BACKSPACE == "backspace"
KEY_UP == "up"
KEY_DOWN == "down"
KEY_CHAR == "char"

KeyEvent(kind, char) == [kind |-> kind, char |-> char]

Events == {KeyEvent(k, "") : k \in {KEY_ENTER, KEY_ESCAPE, KEY_BACKSPACE,
                                    KEY_UP, KEY_DOWN}}
          \cup {KeyEvent(KEY_CHAR, c) : c \in SessionUnits \cap Printable}

(***************************************************************************)
(* picker.py: the key decoder                                              *)
(***************************************************************************)
\* faulty variant: the two directions mixed up
_parse_arrow_Swapped(direction) ==
    IF direction = Some("A") THEN Some(KeyEvent(KEY_DOWN, ""))
    ELSE IF direction = Some("B") THEN Some(KeyEvent(KEY_UP, ""))
    ELSE None

_parse_arrow(direction) ==
    IF direction = Some("A") THEN Some(KeyEvent(KEY_UP, ""))
    ELSE IF direction = Some("B") THEN Some(KeyEvent(KEY_DOWN, ""))
    ELSE None

\* the locals of a _read_key_event call about to read its first unit;
\* reads records every value read_char() has returned to this call
DecodeStart ==
    [at |-> "ch", tries |-> 0, seq1 |-> None, reads |-> <<>>, result |-> None]

DecodeIdle ==
    [at |-> "idle", tries |-> 0, seq1 |-> None, reads |-> <<>>, result |-> None]

Return(d, result) == [d EXCEPT !.at = "ret", !.result = result]

\* faulty variant: only carriage-return is Enter, line-feed is ignored
Classify_DropsLineFeed(ch) ==
    IF ch = CR THEN Some(KeyEvent(KEY_ENTER, ""))
    ELSE IF ch \in {DEL, BS} THEN Some(KeyEvent(KEY_BACKSPACE, ""))
    ELSE IF ch \in Printable THEN Some(KeyEvent(KEY_CHAR, ch))
    ELSE None

\* what _read_key_event does with a first unit that is neither None nor ESC
Classify(ch) ==
    IF ch \in {LF, CR} THEN Some(KeyEvent(KEY_ENTER, ""))
    ELSE IF ch \in {DEL, BS} THEN Some(KeyEvent(KEY_BACKSPACE, ""))
    ELSE IF ch \in Printable THEN Some(KeyEvent(KEY_CHAR, ch))
    ELSE None

\* faulty variant: a follow-up that starts no arrow sequence is typed
AfterSeq1_TypesFollowUp(d, seq1) ==
    IF seq1 \in {Some("["), Some("O")}
    THEN [d EXCEPT !.at = "seq2", !.tries = 0, !.seq1 = seq1]
    ELSE IF seq1 = None
         THEN Return([d EXCEPT !.seq1 = seq1], Some(KeyEvent(KEY_ESCAPE, "")))
         ELSE Return([d EXCEPT !.seq1 = seq1],
                     Some(KeyEvent(KEY_CHAR, seq1[1])))

\* _read_key_event once seq1 is known (an Optional unit)
AfterSeq1(d, seq1) ==
    IF seq1 \in {Some("["), Some("O")}
    THEN [d EXCEPT !.at = "seq2", !.tries = 0, !.seq1 = seq1]
    ELSE Return([d EXCEPT !.seq1 = seq1], Some(KeyEvent(KEY_ESCAPE, "")))

\* faulty variant: an unrecognised or missing second follow-up yields no event
AfterSeq2_DropsUnknown(d, seq2) ==
    IF _parse_arrow(seq2) # None
    THEN Return(d, _parse_arrow(seq2))
    ELSE Return(d, None)

\* _read_key_event once seq2 is known (an Optional unit)
AfterSeq2(d, seq2) ==
    IF _parse_arrow(seq2) # None
    THEN Return(d, _parse_arrow(seq2))
    ELSE Return(d, Some(KeyEvent(KEY_ESCAPE, "")))

\* faulty variant: no retry, the first None ends the continuation
_read_continuation_NoRetry(d, u) ==
    IF u # NoData THEN [done |-> TRUE, ch |-> Some(u), tries |-> d.tries]
    ELSE [done |-> TRUE, ch |-> None, tries |-> d.tries + 1]

\* faulty variant: one more read than _ESC_READ_RETRIES
_read_continuation_OneMore(d, u) ==
    IF u # NoData THEN [done |-> TRUE, ch |-> Some(u), tries |-> d.tries]
    ELSE IF d.tries + 1 > _ESC_READ_RETRIES
         THEN [done |-> TRUE, ch |-> None, tries |-> d.tries + 1]
         ELSE [done |-> FALSE, ch |-> None, tries |-> d.tries + 1]

\* One pass of the for loop of _read_continuation, read_char() having
\* returned u: a real unit is the continuation, the last tolerated None
\* makes it return None.
_read_continuation(d, u) ==
    IF u # NoData THEN [done |-> TRUE, ch |-> Some(u), tries |-> d.tries]
    ELSE IF d.tries + 1 >= _ESC_READ_RETRIES
         THEN [done |-> TRUE, ch |-> None, tries |-> d.tries + 1]
         ELSE [done |-> FALSE, ch |-> None, tries |-> d.tries + 1]

\* The step of a _read_key_event call at which read_char() returns u.
_read_key_event(d0, u) ==
    LET d == [d0 EXCEPT !.reads = Append(d0.reads, u)]
    IN CASE d.at = "ch" ->
              IF u = NoData THEN Return(d, None)
              ELSE IF u = ESC THEN [d EXCEPT !.at = "seq1", !.tries = 0]
              ELSE Return(d, Classify(u))
         [] d.at = "seq1" ->
              LET r == _read_continuation(d, u)
              IN IF r.done THEN AfterSeq1(d, r.ch)
                 ELSE [d EXCEPT !.tries = r.tries]
         [] d.at = "seq2" ->
              LET r == _read_continuation(d, u)
              IN IF r.done THEN AfterSeq2(d, r.ch)
                 ELSE [d EXCEPT !.tries = r.tries]

(***************************************************************************)
(* picker.py: picker state, transition function, renderer                  *)
(***************************************************************************)
filter_fn(query, cands) == fuzzy_filter(query, cands)

\* PickerState(results=list(candidates), total=len(candidates))
PickerState(cands) ==
    [query |-> <<>>, cursor |-> 0, results |-> cands, total |-> Len(cands),
     done |-> FALSE, selected |-> None]

\* faulty variant: ArrowDown without the clamp
CursorDown_Unclamped(s) == s.cursor + 1

\* faulty variant: the limit is the last result, shown or not
CursorDown_ToLastResult(s) == Min(Len(s.results) - 1, s.cursor + 1)

\* ArrowDown: limit = min(len(results), MAX_VISIBLE_RESULTS) - 1
CursorDown(s) ==
    Min(Min(Len(s.results), MAX_VISIBLE_RESULTS) - 1, s.cursor + 1)

CursorUp(s) == Max(0, s.cursor - 1)

\* Enter: the entry under the cursor, or None
Accept(s) ==
    IF s.results # <<>> /\ 0 <= s.cursor /\ s.cursor < Len(s.results)
    THEN Some(s.results[s.cursor + 1])
    ELSE None

\* faulty variant: Escape accepts the row under the cursor, as Enter does
OnEscape_AcceptsRow(s) == [s EXCEPT !.done = TRUE, !.selected = Accept(s)]

\* event.kind == KEY_ESCAPE
OnEscape(s) == [s EXCEPT !.done = TRUE, !.selected = None]

\* faulty variant: Enter accepts the first result, whatever the cursor
OnEnter_AcceptsFirst(s) ==
    [s EXCEPT !.done = TRUE,
              !.selected = IF s.results # <<>> THEN Some(s.results[1]) ELSE None]

\* faulty variant: Enter sets selected and forgets done
OnEnter_LeavesDoneUnset(s) == [s EXCEPT !.selected = Accept(s)]

\* event.kind == KEY_ENTER
OnEnter(s) == [s EXCEPT !.done = TRUE, !.selected = Accept(s)]

\* faulty variant: Backspace shortens the query and keeps the old results
OnBackspace_KeepsResults(s, cands) ==
    IF s.query # <<>>
    THEN [s EXCEPT !.query = SubSeq(s.query, 1, Len(s.query) - 1),
                   !.cursor = 0]
    ELSE s

\* faulty variant: Backspace resets the cursor also when the query is empty
OnBackspace_AlwaysResets(s, cands) ==
    IF s.query # <<>>
    THEN LET q == SubSeq(s.query, 1, Len(s.query) - 1)
         IN [s EXCEPT !.query = q, !.results = filter_fn(q, cands),
                      !.cursor = 0]
    ELSE [s EXCEPT !.cursor = 0]

\* faulty variant: Backspace on an empty query ends the session
OnBackspace_EndsOnEmpty(s, cands) ==
    IF s.query # <<>>
    THEN LET q == SubSeq(s.query, 1, Len(s.query) - 1)
         IN [s EXCEPT !.query = q, !.results = filter_fn(q, cands),
                      !.cursor = 0]
    ELSE [s EXCEPT !.done = TRUE]

\* event.kind == KEY_BACKSPACE
OnBackspace(s, cands) ==
    IF s.query # <<>>
    THEN LET q == SubSeq(s.query, 1, Len(s.query) - 1)
         IN [s EXCEPT !.query = q, !.results = filter_fn(q, cands),
                      !.cursor = 0]
    ELSE s

\* faulty variant: the cursor stays where it was
OnChar_KeepsCursor(s, char, cands) ==
    LET q == Append(s.query, char)
    IN [s EXCEPT !.query = q, !.results = filter_fn(q, cands)]

\* event.kind == KEY_CHAR
OnChar(s, char, cands) ==
    LET q == Append(s.query, char)
    IN [s EXCEPT !.query = q, !.results = filter_fn(q, cands), !.cursor = 0]

update_state(s, e, cands) ==
    CASE e.kind = KEY_ESCAPE -> OnEscape(s)
      [] e.kind = KEY_ENTER -> OnEnter(s)
      [] e.kind = KEY_BACKSPACE -> OnBackspace(s, cands)
      [] e.kind = KEY_UP -> [s EXCEPT !.cursor = CursorUp(s)]
      [] e.kind = KEY_DOWN -> [s EXCEPT !.cursor = CursorDown(s)]
      [] e.kind = KEY_CHAR -> OnChar(s, e.char, cands)
      [] OTHER -> s

\* faulty variant: the first row is highlighted wherever the cursor is
render_HighlightsFirst(s) ==
    LET visible == SubSeq(s.results, 1, Min(Len(s.results), MAX_VISIBLE_RESULTS))
    IN <<[kind |-> "header", text |-> s.query, n |-> 0, total |-> 0],
         [kind |-> "count", text |-> <<>>, n |-> Len(s.results),
          total |-> s.total]>>
       \o [i \in 1..Len(visible) |->
             [kind |-> IF i = 1 THEN "highlight" ELSE "row",
              text |-> visible[i], n |-> 0, total |-> 0]]
       \o (IF visible = <<>>
           THEN <<[kind |-> "placeholder", text |-> <<>>, n |-> 0, total |-> 0]>>
           ELSE <<>>)

\* faulty variant: every result gets a row, however many there are
render_NoTruncation(s) ==
    <<[kind |-> "header", text |-> s.query, n |-> 0, total |-> 0],
      [kind |-> "count", text |-> <<>>, n |-> Len(s.results),
       total |-> s.total]>>
    \o [i \in 1..Len(s.results) |->
          [kind |-> IF i - 1 = s.cursor THEN "highlight" ELSE "row",
           text |-> s.results[i], n |-> 0, total |-> 0]]
    \o (IF s.results = <<>>
        THEN <<[kind |-> "placeholder", text |-> <<>>, n |-> 0, total |-> 0]>>
        ELSE <<>>)

\* The lines of a frame: header, match count, then the visible rows (the row
\* under the cursor highlighted) or the "no matches" placeholder.
render(s) ==
    LET visible == SubSeq(s.results, 1, Min(Len(s.results), MAX_VISIBLE_RESULTS))
    IN <<[kind |-> "header", text |-> s.query, n |-> 0, total |-> 0],
         [kind |-> "count", text |-> <<>>, n |-> Len(s.results),
          total |-> s.total]>>
       \o [i \in 1..Len(visible) |->
             [kind |-> IF i - 1 = s.cursor THEN "highlight" ELSE "row",
              text |-> visible[i], n |-> 0, total |-> 0]]
       \o (IF visible = <<>>
           THEN <<[kind |-> "placeholder", text |-> <<>>, n |-> 0, total |-> 0]>>
           ELSE <<>>)

\* text.count("\n") + 1 of the joined lines
_printed_line_count(lines) == Len(lines)


(***************************************************************************)
(* The candidate snapshots and the scripted readers of the model           *)
(***************************************************************************)
AuthPy ==
    <<"t", "e", "s", "t", "s", "/", "t", "e", "s", "t", "_",
      "a", "u", "t", "h", ".", "p", "y">>
CachePy ==
    <<"t", "e", "s", "t", "s", "/", "t", "e", "s", "t", "_",
      "c", "a", "c", "h", "e", ".", "p", "y">>
APy == <<"a", ".", "p", "y">>
BPy == <<"b", ".", "p", "y">>
CPy == <<"c", ".", "p", "y">>

Letters ==
    <<"b", "c", "d", "e", "f", "g", "h", "i", "j", "k", "l", "m", "n", "o",
      "p", "q", "r", "s", "t", "v", "w">>

TwoTests == <<AuthPy, CachePy>>
ThreeFiles == <<APy, BPy, CPy>>
NoFiles == <<>>
\* one candidate more than the picker shows
ManyFiles == [i \in 1..(MAX_VISIBLE_RESULTS + 1) |-> <<"a", Letters[i]>>]

Snapshots == {TwoTests, ThreeFiles, NoFiles, ManyFiles}

ArrowDownKeys == <<ESC, "[", "B">>
ArrowUpKeys == <<ESC, "[", "A">>

\* k ArrowDown presses, then j ArrowUp presses, then Enter
PressScript(k, j) ==
    Repeat(ArrowDownKeys, k) \o Repeat(ArrowUpKeys, j) \o <<CR>>

TypeAuEnter == <<"a", "u", CR>>
TypeAuEscape == <<"a", "u", ESC>>
GappedDownEnter == <<ESC, NoData, "[", NoData, "B", CR>>

\* type "a", move down, erase it, move down, type "a" again
EditScript ==
    <<"a">> \o ArrowDownKeys \o <<DEL>> \o ArrowDownKeys \o <<"a">>

Scripts ==
    {TypeAuEnter, TypeAuEscape, GappedDownEnter, EditScript}
    \cup {PressScript(k, j) : k \in 0..MaxPresses, j \in {0, 1, MaxPresses}}

(***************************************************************************)
(* The terminal run_picker writes to                                       *)
(***************************************************************************)
\* what a screen row shows: nothing, or text written over text that was
\* not cleared first
Blank == [kind |-> "blank", text |-> <<>>, n |-> 0, total |-> 0]
Garbled == [kind |-> "garbled", text |-> <<>>, n |-> 0, total |-> 0]

\* a terminal as a process finds it: canonical (line-buffered, echoing)
\* input mode, nothing written yet; tail is the last two writes.  rows are
\* the screen rows from the one the output cursor starts on, row is the
\* 0-based row of the output cursor, bol tells whether it is in the first
\* column, start is the row on which the last frame began.
TermStart ==
    [mode |-> "cooked", shows |-> 0, tail |-> <<>>,
     rows |-> <<>>, row |-> 0, bol |-> TRUE, start |-> 0]

\* _write(s), s being of the given kind
Write(t, kind) ==
    [t EXCEPT !.tail = IF @ = <<>> THEN <<kind>> ELSE <<@[Len(@)], kind>>,
              !.shows = IF kind = "show" THEN @ + 1 ELSE @]

\* the rows of the screen, down to row r at least
RowsTo(rows, r) ==
    rows \o [i \in 1..(r + 1 - Len(rows)) |-> Blank]

\* _write(_CURSOR_UP * n): the cursor goes up n rows, not past the first
MoveUp(t, n) == [t EXCEPT !.row = Max(0, @ - n)]

\* _write("\r")
CarriageReturn(t) == [t EXCEPT !.bol = TRUE]

\* _write("\n"): the terminal's output processing makes it a new line
LineFeed(t) == [t EXCEPT !.row = @ + 1, !.bol = TRUE]

\* for _ in range(n): _write(f"{_CLEAR_LINE}\n")
RECURSIVE ClearLines(_, _)
ClearLines(t, n) ==
    IF n <= 0 THEN t
    ELSE ClearLines(
            [t EXCEPT !.rows = [RowsTo(@, t.row) EXCEPT ![t.row + 1] = Blank],
                      !.row = @ + 1],
            n - 1)

\* faulty variant: the cursor goes back to the first line of the previous
\* frame, no line is cleared
Erase_ClearsNothing(t, p) ==
    Write(CarriageReturn(MoveUp(t, p - 1)), "erase")

\* the erase of a previous frame of p lines: up p - 1, "\r", p times clear
\* and "\n", up p, "\r"
Erase(t, p) ==
    Write(CarriageReturn(MoveUp(
             ClearLines(CarriageReturn(MoveUp(t, p - 1)), p), p)),
          "erase")

\* _write(frame): line k of the frame goes to the k-th row from the cursor
\* on and is readable if that row was blank (and, for the first line, the
\* cursor in the first column); the cursor stays behind the last line.
\* The rows are taken to be wide enough for every line.
WriteFrame(t, lines) ==
    LET old == RowsTo(t.rows, t.row + Len(lines) - 1)
        shown(k) == IF old[t.row + k] = Blank /\ (k > 1 \/ t.bol)
                    THEN lines[k] ELSE Garbled
    IN Write([t EXCEPT
                !.rows = [i \in 1..Len(old) |->
                            IF i - t.row \in 1..Len(lines)
                            THEN shown(i - t.row) ELSE old[i]],
                !.row = t.row + Len(lines) - 1,
                !.bol = FALSE,
                !.start = t.row],
             "frame")

\* finally: _write(_SHOW_CURSOR); _write("\n")
Finally(t) == LineFeed(Write(Write(t, "show"), "newline"))

\* no direct fuzzy call and no reader of its own is running
FzIdle == [op |-> "none"]
IoIdle == [reader |-> "none"]

(***************************************************************************)
(* run_picker                                                              *)
(***************************************************************************)
Init ==
    /\ candidates \in Snapshots
    /\ state = PickerState(candidates)
    /\ pc = "start"
    /\ dec = DecodeIdle
    /\ event = None
    /\ frame = <<>>
    /\ prev_lines = 0
    /\ hidden = FALSE
    /\ ret = None
    /\ \/ scripted = FALSE /\ script = <<>>
       \/ scripted = TRUE /\ script \in Scripts
    /\ pos = 0
    /\ term = TermStart
    /\ fz = FzIdle
    /\ io = IoIdle

\* _write(_HIDE_CURSOR); prev_lines = 0
Begin ==
    /\ pc = "start"
    /\ hidden' = TRUE
    /\ term' = Write(term, "hide")
    /\ prev_lines' = 0
    /\ pc' = "loop"
    /\ UNCHANGED <<fz, io, candidates, state, dec, event, frame, ret, scripted,
                   script, pos>>

\* faulty variant: the loop condition is not looked at
RenderFrame_IgnoresDone ==
    /\ pc = "loop"
    /\ frame' = render(state)
    /\ term' = WriteFrame(IF prev_lines > 0 THEN Erase(term, prev_lines)
                          ELSE term,
                          render(state))
    /\ prev_lines' = _printed_line_count(render(state))
    /\ dec' = DecodeStart
    /\ pc' = "read"
    /\ UNCHANGED <<fz, io, candidates, state, event, hidden, ret, scripted, script,
                   pos>>

\* faulty variant: only the first frame is written
RenderFrame_OnlyOnce ==
    /\ pc = "loop"
    /\ ~state.done
    /\ frame' = IF prev_lines > 0 THEN frame ELSE render(state)
    /\ term' = IF prev_lines > 0 THEN term ELSE WriteFrame(term, render(state))
    /\ prev_lines' = _printed_line_count(frame')
    /\ dec' = DecodeStart
    /\ pc' = "read"
    /\ UNCHANGED <<fz, io, candidates, state, event, hidden, ret, scripted, script,
                   pos>>

\* while not state.done: erase the previous frame, render and write the new
\* one, then call _read_key_event
RenderFrame ==
    /\ pc = "loop"
    /\ ~state.done
    /\ frame' = render(state)
    /\ term' = WriteFrame(IF prev_lines > 0 THEN Erase(term, prev_lines)
                          ELSE term,
                          render(state))
    /\ prev_lines' = _printed_line_count(render(state))
    /\ dec' = DecodeStart
    /\ pc' = "read"
    /\ UNCHANGED <<fz, io, candidates, state, event, hidden, ret, scripted, script,
                   pos>>

\* read_char() returns u to the running _read_key_event call; when the call
\* returns, the loop applies the event (if any) and starts over.
Poll(u) ==
    LET d == _read_key_event(dec, u)
    IN IF d.at = "ret"
       THEN /\ (d.result # None /\ d.result[1].kind = KEY_CHAR)
                  => Len(state.query) < MaxQuery
            /\ event' = d.result
            /\ state' = IF d.result = None THEN state
                        ELSE update_state(state, d.result[1], candidates)
            /\ dec' = DecodeIdle
            /\ pc' = "loop"
       ELSE /\ dec' = d
            /\ UNCHANGED <<event, state, pc>>

\* the default reader on a terminal: any unit, or None on a select() timeout
ReadTty ==
    /\ pc = "read"
    /\ ~scripted
    /\ \E u \in SessionUnits \cup {NoData} : Poll(u)
    /\ UNCHANGED <<term, fz, io, candidates, frame, prev_lines, hidden, ret, scripted,
                   script, pos>>

\* a scripted reader: next(it, None)
ReadScript ==
    /\ pc = "read"
    /\ scripted
    /\ Poll(IF pos < Len(script) THEN script[pos + 1] ELSE NoData)
    /\ pos' = Min(pos + 1, Len(script))
    /\ UNCHANGED <<term, fz, io, candidates, frame, prev_lines, hidden, ret, scripted,
                   script>>

\* the loop ends: finally _write(_SHOW_CURSOR), _write("\n"); return
\* state.selected
ExitLoop ==
    /\ pc = "loop"
    /\ state.done
    /\ hidden' = FALSE
    /\ term' = Finally(term)
    /\ ret' = state.selected
    /\ pc' = "returned"
    /\ UNCHANGED <<fz, io, candidates, state, dec, event, frame, prev_lines,
                   scripted, script, pos>>

\* faulty variant: no try/finally, the exception leaves run_picker at once
Fail_NoFinally ==
    /\ \/ pc = "loop" /\ ~state.done
       \/ pc = "read"
    /\ dec' = DecodeIdle
    /\ pc' = "raised"
    /\ UNCHANGED <<term, hidden, fz, io, candidates, state, event, frame,
                   prev_lines, ret, scripted, script, pos>>

\* An exception is raised inside the try block (by _write of a frame, by
\* read_char, e.g. KeyboardInterrupt, or by filter_fn): the finally clause
\* runs and the exception propagates to the caller.
Fail ==
    /\ \/ pc = "loop" /\ ~state.done
       \/ pc = "read"
    /\ hidden' = FALSE
    /\ term' = Finally(term)
    /\ dec' = DecodeIdle
    /\ pc' = "raised"
    /\ UNCHANGED <<fz, io, candidates, state, event, frame, prev_lines, ret,
                   scripted, script, pos>>

Next == Begin \/ RenderFrame \/ ReadTty \/ ReadScript \/ ExitLoop \/ Fail

Spec == Init /\ [][Next]_vars

\* run_picker is sequential code: once the while condition is false it goes
\* on to the finally clause and the return
SpecFair == Spec /\ WF_vars(ExitLoop)

(***************************************************************************)
(* _read_key_event called on its own, as its unit tests call it            *)
(***************************************************************************)
InitDecode ==
    /\ candidates = NoFiles
    /\ state = PickerState(NoFiles)
    /\ pc = "_read_key_event"
    /\ dec = DecodeStart
    /\ event = None
    /\ frame = <<>>
    /\ prev_lines = 0
    /\ hidden = FALSE
    /\ ret = None
    /\ scripted = FALSE
    /\ script = <<>>
    /\ pos = 0
    /\ term = TermStart
    /\ fz = FzIdle
    /\ io = IoIdle

DecodeRead ==
    /\ pc = "_read_key_event"
    /\ dec.at # "ret"
    /\ \E u \in Units \cup {NoData} : dec' = _read_key_event(dec, u)
    /\ event' = IF dec'.at = "ret" THEN dec'.result ELSE event
    /\ UNCHANGED <<term, fz, io, candidates, state, pc, frame, prev_lines, hidden, ret,
                   scripted, script, pos>>

DecodeCall ==
    /\ pc = "_read_key_event"
    /\ dec.at = "ret"
    /\ dec' = DecodeStart
    /\ UNCHANGED <<term, fz, io, candidates, state, pc, event, frame, prev_lines, hidden,
                   ret, scripted, script, pos>>

NextDecode == DecodeRead \/ DecodeCall

SpecDecode == InitDecode /\ [][NextDecode]_vars

(***************************************************************************)
(* update_state called on its own, as its unit tests call it               *)
(***************************************************************************)
InitUpdate ==
    /\ candidates \in Snapshots
    /\ state = PickerState(candidates)
    /\ pc = "update_state"
    /\ dec = DecodeIdle
    /\ event = None
    /\ frame = <<>>
    /\ prev_lines = 0
    /\ hidden = FALSE
    /\ ret = None
    /\ scripted = FALSE
    /\ script = <<>>
    /\ pos = 0
    /\ term = TermStart
    /\ fz = FzIdle
    /\ io = IoIdle

ApplyEvent ==
    /\ pc = "update_state"
    /\ \E e \in Events :
          /\ e.kind = KEY_CHAR => Len(state.query) < MaxQuery
          /\ state' = update_state(state, e, candidates)
          /\ event' = Some(e)
    /\ UNCHANGED <<term, fz, io, candidates, pc, dec, frame, prev_lines, hidden, ret,
                   scripted, script, pos>>

NextUpdate == ApplyEvent

SpecUpdate == InitUpdate /\ [][NextUpdate]_vars
(***************************************************************************)
(* The readers, read on their own by _read_key_event                       *)
(***************************************************************************)
\* The default _read_char of run_picker: select() looks at the descriptor,
\* sys.stdin.read(1) reads through Python's buffer, which takes k >= 1 of
\* the queued bytes off the descriptor when it is empty.
default_read_char(i, k) ==
    IF i.fdq = <<>>
    THEN [ch |-> NoData, fdq |-> i.fdq, buf |-> i.buf]
    ELSE IF i.buf # <<>>
         THEN [ch |-> Head(i.buf), fdq |-> i.fdq, buf |-> Tail(i.buf)]
         ELSE [ch |-> i.fdq[1], fdq |-> SubSeq(i.fdq, k + 1, Len(i.fdq)),
               buf |-> SubSeq(i.fdq, 2, k)]

\* make_raw_reader(fd): select() on the descriptor, then os.read(fd, 1)
raw_read_char(i, k) ==
    IF i.fdq = <<>>
    THEN [ch |-> NoData, fdq |-> i.fdq, buf |-> i.buf]
    ELSE [ch |-> Head(i.fdq), fdq |-> Tail(i.fdq), buf |-> i.buf]

read_char(i, k) ==
    IF i.reader = "default" THEN default_read_char(i, k) ELSE raw_read_char(i, k)

\* what one key press writes to the descriptor at once
Bursts == {ArrowDownKeys, ArrowUpKeys, <<"a">>, <<CR>>}

\* bytes that have arrived and that no read has returned yet
Unreturned(i) == i.buf \o i.fdq

InitReader ==
    /\ candidates = NoFiles
    /\ state = PickerState(NoFiles)
    /\ pc = "read_char"
    /\ dec = DecodeStart
    /\ event = None
    /\ frame = <<>>
    /\ prev_lines = 0
    /\ hidden = FALSE
    /\ ret = None
    /\ scripted = FALSE
    /\ script = <<>>
    /\ pos = 0
    /\ term = TermStart
    /\ fz = FzIdle
    /\ io \in {[reader |-> r, fdq |-> <<>>, buf |-> <<>>, bursts |-> 0,
                arrived |-> <<>>, returned |-> <<>>, starved |-> FALSE,
                atcall |-> <<>>] : r \in {"default", "raw"}}

\* a key press: its bytes reach the descriptor in one burst
KeyArrives ==
    /\ pc = "read_char"
    /\ io.bursts < MaxBursts
    /\ \E b \in Bursts :
          io' = [io EXCEPT !.fdq = @ \o b, !.arrived = @ \o b,
                           !.bursts = @ + 1]
    /\ UNCHANGED <<term, fz, candidates, state, pc, dec, event, frame,
                   prev_lines, hidden, ret, scripted, script, pos>>

\* the running _read_key_event call (a new one when the last has returned)
\* calls read_char()
ReaderRead ==
    /\ pc = "read_char"
    /\ \E k \in 1..Max(1, Len(io.fdq)) :
          LET d == IF dec.at = "ret" THEN DecodeStart ELSE dec
              r == read_char(io, k)
          IN /\ dec' = _read_key_event(d, r.ch)
             /\ io' = [io EXCEPT
                         !.fdq = r.fdq,
                         !.buf = r.buf,
                         !.returned = IF r.ch = NoData THEN @
                                      ELSE Append(@, r.ch),
                         !.starved = r.ch = NoData /\ Unreturned(io) # <<>>,
                         !.atcall = IF d.at = "ch" THEN Unreturned(io) ELSE @]
    /\ event' = IF dec'.at = "ret" THEN dec'.result ELSE event
    /\ UNCHANGED <<term, fz, candidates, state, pc, frame, prev_lines,
                   hidden, ret, scripted, script, pos>>

NextReader == KeyArrives \/ ReaderRead

SpecReader == InitReader /\ [][NextReader]_vars

(***************************************************************************)
(* fuzzy_match and fuzzy_filter, called directly                           *)
(***************************************************************************)
QueryChars == {"A", "b", "i", "U+0307"}
TextChars == {"a", "B", "_", "U+0130"}

SeqsUpTo(S, n) == UNION {[1..k -> S] : k \in 0..n}

Queries == SeqsUpTo(QueryChars, MaxQ)
Texts == SeqsUpTo(TextChars, MaxText)

\* candidates with equal scores ("ab", "aB"), a lower score ("ba") and a
\* text most queries do not match ("B")
CandidatePool == {<<"a", "b">>, <<"a", "B">>, <<"b", "a">>, <<"B">>}
CandidateLists == SeqsUpTo(CandidatePool, MaxCands)

InitFuzzy ==
    /\ candidates = NoFiles
    /\ state = PickerState(NoFiles)
    /\ pc = "fuzzy"
    /\ dec = DecodeIdle
    /\ event = None
    /\ frame = <<>>
    /\ prev_lines = 0
    /\ hidden = FALSE
    /\ ret = None
    /\ scripted = FALSE
    /\ script = <<>>
    /\ pos = 0
    /\ term = TermStart
    /\ io = IoIdle
    /\ \/ \E q \in Queries, t \in Texts :
             fz = [op |-> "match", query |-> q, text |-> t, called |-> FALSE,
                   matched |-> FALSE, score |-> 0]
       \/ \E q \in Queries, c \in CandidateLists :
             fz = [op |-> "filter", query |-> q, given |-> c, cands |-> c,
                   called |-> FALSE, out |-> <<>>, again |-> <<>>]

\* matched, score = fuzzy_match(query, text)
MatchCall ==
    /\ pc = "fuzzy"
    /\ fz.op = "match"
    /\ ~fz.called
    /\ LET m == fuzzy_match(fz.query, fz.text)
       IN fz' = [fz EXCEPT !.called = TRUE, !.matched = m.matched,
                           !.score = m.score]
    /\ UNCHANGED <<term, io, candidates, state, pc, dec, event, frame,
                   prev_lines, hidden, ret, scripted, script, pos>>

\* out = fuzzy_filter(query, cands); again = fuzzy_filter(query, out).
\* The function builds new lists and never writes to its argument.
FilterCall ==
    /\ pc = "fuzzy"
    /\ fz.op = "filter"
    /\ ~fz.called
    /\ LET out == fuzzy_filter(fz.query, fz.cands)
       IN fz' = [fz EXCEPT !.called = TRUE, !.out = out,
                           !.again = fuzzy_filter(fz.query, out)]
    /\ UNCHANGED <<term, io, candidates, state, pc, dec, event, frame,
                   prev_lines, hidden, ret, scripted, script, pos>>

NextFuzzy == MatchCall \/ FilterCall

SpecFuzzy == InitFuzzy /\ [][NextFuzzy]_vars

(***************************************************************************)
(* Properties                                                              *)
(***************************************************************************)
Escape == KeyEvent(KEY_ESCAPE, "")
Enter == KeyEvent(KEY_ENTER, "")
ArrowUp == KeyEvent(KEY_UP, "")
ArrowDown == KeyEvent(KEY_DOWN, "")
Backspace == KeyEvent(KEY_BACKSPACE, "")

\* the session step in which a decode call returns event e and the loop
\* applies it
Applied(e) == pc = "read" /\ pc' = "loop" /\ event' = Some(e)

\* the step in which run_picker leaves its loop and returns
Returns == pc = "loop" /\ pc' = "returned"

\* C1: an Escape event applied to any state of a session sets done, leaves
\* selected None, and run_picker then returns None.
C1_EscapeCancels ==
    [][/\ Applied(Escape) => (state'.done /\ state'.selected = None)
       /\ (Returns /\ event = Some(Escape)) => ret' = None]_vars

\* a session cancelled after a query was typed and the cursor moved
C1_Witness ==
    /\ pc = "returned"
    /\ event = Some(Escape)
    /\ state.query # <<>>
    /\ state.cursor > 0
    /\ ret = None

\* C2: an Enter event sets done and accepts exactly results[cursor] when
\* results is non-empty and the cursor is a valid index; otherwise it ends
\* the session with no selection.
C2_EnterAccepts ==
    [][Applied(Enter) =>
         /\ state'.done
         /\ state'.selected =
              IF Len(state.results) > 0 /\ state.cursor \in 0..(Len(state.results) - 1)
              THEN Some(state.results[state.cursor + 1])
              ELSE None]_vars

\* Enter accepted an entry below the first one of a filtered result list
C2_Witness ==
    /\ event = Some(Enter)
    /\ state.done
    /\ state.query # <<>>
    /\ state.cursor > 0
    /\ state.selected = Some(state.results[state.cursor + 1])

\* C3: on the candidates tests/test_auth.py, tests/test_cache.py with the
\* fuzzy filter, the keystrokes a, u, Enter return tests/test_auth.py; a, u,
\* Escape return nothing; ArrowDown, Enter return tests/test_cache.py.
C3_EndToEnd ==
    (pc = "returned" /\ scripted /\ candidates = TwoTests) =>
       /\ script = TypeAuEnter => ret = Some(AuthPy)
       /\ script = TypeAuEscape => ret = None
       /\ script = PressScript(1, 0) => ret = Some(CachePy)
       /\ script = GappedDownEnter => ret = Some(CachePy)

\* the run a, u, Enter has consumed its script and returned
C3_Witness ==
    /\ pc = "returned"
    /\ scripted
    /\ candidates = TwoTests
    /\ script = TypeAuEnter
    /\ pos = Len(script)
    /\ state.query = <<"a", "u">>
    /\ ret = Some(AuthPy)

\* C4: in every state of a session the cursor satisfies
\* 0 <= cursor < max(1, min(len(results), MAX_VISIBLE_RESULTS)).
C4_CursorInRange ==
    /\ 0 <= state.cursor
    /\ state.cursor < Max(1, Min(Len(state.results), MAX_VISIBLE_RESULTS))

\* C5: in every state of a session results is filter_fn(query, candidates)
\* for the current query and the snapshot the session started with.
C5_ResultsAreFiltered == state.results = filter_fn(state.query, candidates)

\* a Backspace has brought the query "au" back to "a" and a.py back into
\* the results
C5_Witness ==
    /\ candidates = ThreeFiles
    /\ event = Some(Backspace)
    /\ state.query = <<"a">>
    /\ state.results = <<APy>>

\* C6: selected is set only when done is true, and it becomes a candidate
\* only in a step that applies Enter to a state whose results are non-empty
\* and whose cursor is a valid index.
C6_SelectedOnlyWhenDone ==
    /\ [](state.selected # None => state.done)
    /\ [][(state.selected = None /\ state'.selected # None) =>
            /\ Applied(Enter)
            /\ state.results # <<>>
            /\ 0 <= state.cursor
            /\ state.cursor < Len(state.results)
            /\ state'.selected = Some(state.results[state.cursor + 1])]_vars

\* a session that ended with a candidate selected
C6_Witness ==
    /\ state.done
    /\ state.selected # None
    /\ event = Some(Enter)
    /\ state.selected[1] \in Range(candidates)

\* C7: once the state is done, applying a further key event through
\* update_state leaves query, cursor, results, done and selected unchanged.
C7_EventsAfterDoneIgnored == [][state.done => state' = state]_vars

IsPrefix(p, q) == Len(p) <= Len(q) /\ SubSeq(q, 1, Len(p)) = p

Gap(n) == Repeat(<<NoData>>, n)

\* ESC, k times "no data", x, j times "no data", y
ArrowReads(x, y, k, j) == <<ESC>> \o Gap(k) \o <<x>> \o Gap(j) \o <<y>>

\* the units of a sequence of reads, the "no data" sentinels left out
RealUnits(reads) == SelectSeq(reads, LAMBDA u : u # NoData)

ArrowOf(y) == IF y = "A" THEN ArrowUp ELSE ArrowDown

\* C8: a decode call fed ESC, '[' or 'O', 'A' or 'B', with up to 3 "no data"
\* sentinels in each of the two gaps, reads the whole sequence and returns
\* ArrowUp for 'A' and ArrowDown for 'B'.
C8_ArrowsSurviveGaps ==
    \A x \in {"[", "O"}, y \in {"A", "B"}, k \in 0..3, j \in 0..3 :
       LET seq == ArrowReads(x, y, k, j)
       IN IsPrefix(dec.reads, seq) =>
            IF dec.reads = seq
            THEN dec.at = "ret" /\ dec.result = Some(ArrowOf(y))
            ELSE dec.at # "ret"

\* ESC O B decoded with three sentinels in each gap
C8_Witness ==
    /\ dec.at = "ret"
    /\ dec.reads = ArrowReads("O", "B", 3, 3)
    /\ dec.result = Some(ArrowDown)

IsArrowSequence(units) ==
    /\ Len(units) = 3
    /\ units[1] = ESC
    /\ units[2] \in {"[", "O"}
    /\ units[3] \in {"A", "B"}

\* C9: a decode call whose first unit is ESC and whose units do not make up
\* ESC, '[' or 'O', 'A' or 'B' returns the event Escape.
C9_BrokenSequenceIsEscape ==
    (/\ dec.at = "ret"
     /\ dec.reads # <<>>
     /\ dec.reads[1] = ESC
     /\ ~IsArrowSequence(RealUnits(dec.reads)))
       => dec.result = Some(Escape)

\* ESC '[' and then nothing but "no data": the call gave up and returned
\* Escape
C9_Witness ==
    /\ dec.at = "ret"
    /\ RealUnits(dec.reads) = <<ESC, "[">>
    /\ dec.reads[Len(dec.reads)] = NoData
    /\ dec.result = Some(Escape)

\* how many whole ArrowDown (ArrowUp) presses of PressScript(k, j) lie in
\* its first p tokens
DownsIn(k, p) == Min(k, p \div 3)
UpsIn(k, j, p) == Max(0, Min(j, (p - 3 * k) \div 3))

\* where k ArrowDown and then j ArrowUp presses take the cursor from 0 on n
\* results
ClampedCursor(n, k, j) ==
    Max(0, Min(k, Min(n, MAX_VISIBLE_RESULTS) - 1) - j)

\* C10: with n >= 1 results and the cursor at 0, k ArrowDown presses leave
\* the cursor at min(k, min(n, MAX_VISIBLE_RESULTS) - 1), ArrowUp presses
\* afterwards never take it below 0, and Enter then accepts the candidate
\* at that index.
C10_CursorClamps ==
    \A k \in 0..MaxPresses, j \in {0, 1, MaxPresses} :
       (scripted /\ script = PressScript(k, j) /\ candidates # <<>>) =>
          LET n == Len(candidates)
          IN /\ pc = "loop" =>
                  state.cursor = ClampedCursor(n, DownsIn(k, pos), UpsIn(k, j, pos))
             /\ pc = "returned" =>
                  ret = Some(candidates[ClampedCursor(n, k, j) + 1])

\* ten ArrowDown presses on three candidates: the cursor is at index 2
C10_Witness ==
    /\ scripted
    /\ candidates = ThreeFiles
    /\ script = PressScript(10, MaxPresses)
    /\ pos = 30
    /\ pc = "loop"
    /\ state.cursor = 2

\* C11: Backspace on an empty query changes nothing: query, results, cursor,
\* done and selected stay as they are, wherever the cursor is.
C11_BackspaceOnEmptyIsNoop ==
    [][(Applied(Backspace) /\ state.query = <<>>) => state' = state]_vars

\* a Backspace on the empty query with the cursor moved off the first row
C11_Witness ==
    /\ event = Some(Backspace)
    /\ pc = "loop"
    /\ state.query = <<>>
    /\ state.cursor > 0
    /\ ~state.done

\* C12: the show-cursor code followed by a line break is written exactly
\* once, as the last two writes, when run_picker returns or lets an
\* exception propagate, and never before; until then the cursor stays
\* hidden.
C12_CursorRestoredOnExit ==
    /\ pc \in {"returned", "raised"} =>
          /\ term.shows = 1
          /\ term.tail = <<"show", "newline">>
          /\ ~hidden
    /\ pc \in {"loop", "read"} => (term.shows = 0 /\ hidden)

\* an exception raised while a decode call was waiting for input, after a
\* frame had been written
C12_Witness ==
    /\ pc = "raised"
    /\ state.query # <<>>
    /\ ~state.done
    /\ term.shows = 1
    /\ ~hidden

\* C13: while the loop runs the terminal is in unbuffered, no-echo input
\* mode, and on every exit (return or exception) it is back in the mode it
\* had before.
C13_RawModeScoped ==
    /\ pc \in {"loop", "read"} => term.mode = "cbreak"
    /\ pc \in {"returned", "raised"} => term.mode = TermStart.mode

\* the call that just returned started with a whole arrow sequence waiting
ArrowWaiting(y) ==
    /\ Len(io.atcall) >= 3
    /\ SubSeq(io.atcall, 1, 3) = <<ESC, "[", y>>

\* C14: the reader hands out the arrived bytes one per call in arrival
\* order, returns "no data" only when no arrived byte is still unreturned,
\* and so an arrow key whose three bytes arrived in one burst decodes to the
\* arrow event.
C14_ReaderSeesOneQueue ==
    /\ IsPrefix(io.returned, io.arrived)
    /\ ~io.starved
    /\ \A y \in {"A", "B"} :
          (dec.at = "ret" /\ ArrowWaiting(y)) => dec.result = Some(ArrowOf(y))

Matched == fz.op = "match" /\ fz.called
Filtered == fz.op = "filter" /\ fz.called

\* two characters are the same letter when case is ignored
SameLetter(a, b) == Lower(<<a>>) = Lower(<<b>>)

\* every character of q occurs in t, in order, not necessarily adjacent
RECURSIVE IsSubsequence(_, _)
IsSubsequence(q, t) ==
    \/ q = <<>>
    \/ \E i \in 1..Len(t) :
          /\ SameLetter(q[1], t[i])
          /\ IsSubsequence(Tail(q), SubSeq(t, i + 1, Len(t)))

\* C15: fuzzy_match reports matched exactly when the query is a
\* case-insensitive subsequence of the text, and never for a query longer
\* than the text.
C15_MatchedIffSubsequence ==
    Matched =>
       /\ fz.matched <=> IsSubsequence(fz.query, fz.text)
       /\ Len(fz.query) > Len(fz.text) => ~fz.matched

\* the candidates of c that match q, as indices into c
MatchingIndices(q, c) == {i \in 1..Len(c) : fuzzy_match(q, c[i]).matched}

\* C16: for a non-empty query the result of fuzzy_filter lists exactly the
\* matching candidates, each once per occurrence, by descending score, equal
\* scores in their original relative order; the given sequence is unchanged.
C16_FilterSortsMatches ==
    (Filtered /\ fz.query # <<>>) =>
       /\ fz.cands = fz.given
       /\ LET M == MatchingIndices(fz.query, fz.given)
              sc(i) == fuzzy_match(fz.query, fz.given[i]).score
          IN /\ Len(fz.out) = Cardinality(M)
             /\ \E p \in [1..Len(fz.out) -> M] :
                   /\ \A k \in 1..Len(fz.out) : fz.out[k] = fz.given[p[k]]
                   /\ \A k, l \in 1..Len(fz.out) :
                         k < l => \/ sc(p[k]) > sc(p[l])
                                  \/ sc(p[k]) = sc(p[l]) /\ p[k] < p[l]

\* a call that dropped a candidate and moved a better one to the front
C16_Witness ==
    /\ Filtered
    /\ fz.query = <<"A">>
    /\ fz.given = <<<<"b", "a">>, <<"B">>, <<"a", "b">>>>
    /\ fz.out = <<<<"a", "b">>, <<"b", "a">>>>

\* C17: filtering a filtered result again with the same query changes
\* nothing.
C17_FilterIdempotent ==
    Filtered => fz.again = fz.out

\* a second pass over a result that holds a tie and a lower score
C17_Witness ==
    /\ Filtered
    /\ fz.query # <<>>
    /\ Len(fz.out) >= 3
    /\ fz.out # fz.given
    /\ \E k \in 1..(Len(fz.out) - 1) :
          /\ fz.out[k] # fz.out[k + 1]
          /\ fuzzy_match(fz.query, fz.out[k]).score
               = fuzzy_match(fz.query, fz.out[k + 1]).score

\* C18: with the empty query fuzzy_filter returns the candidates as given:
\* same elements, same multiplicity, same order, the empty list included.
C18_EmptyQueryKeepsAll ==
    (Filtered /\ fz.query = <<>>) => fz.out = fz.given /\ fz.cands = fz.given

\* an empty-query call on a list with a repeated candidate, out of score order
C18_Witness ==
    /\ Filtered
    /\ fz.query = <<>>
    /\ fz.given = <<<<"b", "a">>, <<"B">>, <<"B">>>>
    /\ fz.out = fz.given

\* 0-based index of the first c in the lowered text tl at or after from,
\* -1 if there is none
FirstAt(c, tl, from) ==
    IF \E k \in from..(Len(tl) - 1) : tl[k + 1] = c
    THEN CHOOSE k \in from..(Len(tl) - 1) :
            /\ tl[k + 1] = c
            /\ \A m \in from..(k - 1) : tl[m + 1] # c
    ELSE -1

\* where a two-character query q is hit in t: <<first, second>>
Hits(q, t) ==
    LET h1 == FirstAt(Lower(q)[1], Lower(t), 0)
    IN <<h1, IF h1 < 0 THEN -1 ELSE FirstAt(Lower(q)[2], Lower(t), h1 + 1)>>

\* the word-boundary bonus the hit at index i of t earns
BoundaryBonusAt(t, i) ==
    IF i = 0 \/ Lower(t)[i] \in BoundaryChars THEN 2 ELSE 0

\* texts of n characters that lower() maps one to one
PlainTexts(n) == [1..n -> TextChars \ {"U+0130"}]

PlainMatch ==
    /\ Matched
    /\ Len(fz.query) = 2
    /\ fz.text \in PlainTexts(Len(fz.text))
    /\ Hits(fz.query, fz.text)[1] >= 0
    /\ Hits(fz.query, fz.text)[2] = Hits(fz.query, fz.text)[1] + 1

\* t2 has the first hit where fz.text has it and the second one further on
SpreadOf(t2) ==
    /\ Hits(fz.query, t2)[1] = Hits(fz.query, fz.text)[1]
    /\ Hits(fz.query, t2)[2] > Hits(fz.query, fz.text)[1] + 1

C20_EmptyQueryMatches ==
    (Matched /\ fz.query = <<>>) => fz.matched /\ fz.score >= 0

\* the empty query against the empty text
C20_Witness ==
    /\ Matched
    /\ fz.query = <<>>
    /\ fz.text = <<>>
    /\ fz.matched

\* the rows of a frame f that are highlighted, as indices into f
Highlighted(f) == {i \in 1..Len(f) : f[i].kind = "highlight"}

\* C21: the frame written for a state has 2 + max(1, min(len(results),
\* MAX_VISIBLE_RESULTS)) lines: the header with the query, the summary with
\* len(results) and total, then the first min(len(results), 15) results in
\* order, the one at index cursor highlighted and no other, or, with no
\* results, one placeholder line and no highlighted row.
C21_FrameShape ==
    pc = "read" =>
       LET n == Min(Len(state.results), MAX_VISIBLE_RESULTS)
       IN /\ Len(frame) = 2 + Max(1, n)
          /\ frame[1].kind = "header" /\ frame[1].text = state.query
          /\ frame[2].kind = "count"
          /\ frame[2].n = Len(state.results)
          /\ frame[2].total = Len(candidates)
          /\ IF n = 0
             THEN frame[3].kind = "placeholder" /\ Highlighted(frame) = {}
             ELSE /\ \A i \in 1..n :
                        /\ frame[2 + i].kind \in {"row", "highlight"}
                        /\ frame[2 + i].text = state.results[i]
                  /\ Highlighted(frame) = {2 + state.cursor + 1}

\* a frame of 16 results cut to 15 rows, the last of them highlighted
C21_Witness ==
    /\ pc = "read"
    /\ Len(state.results) = MAX_VISIBLE_RESULTS + 1
    /\ state.cursor = MAX_VISIBLE_RESULTS - 1
    /\ Len(frame) = MAX_VISIBLE_RESULTS + 2
    /\ frame[Len(frame)].kind = "highlight"

\* C22: inside an escape sequence up to 4 consecutive "no data" sentinels
\* are tolerated: after ESC and k <= 4 sentinels the call still waits for the
\* first follow-up, and after ESC, k sentinels, '[' or 'O' and j <= 4
\* sentinels it still waits for the second one.
C22_ToleratesFourSentinels ==
    \A k \in 0..4 :
       /\ dec.reads = <<ESC>> \o Gap(k) => dec.at = "seq1"
       /\ \A x \in {"[", "O"}, j \in 0..4 :
             dec.reads = <<ESC>> \o Gap(k) \o <<x>> \o Gap(j)
                => dec.at = "seq2"

\* the 0-based indices at which the loop of fuzzy_match hits the characters
\* of the lowered query ql in the lowered text tl, from index from on
RECURSIVE HitsFrom(_, _, _)
HitsFrom(ql, tl, from) ==
    IF ql = <<>> THEN <<>>
    ELSE LET h == FirstAt(ql[1], tl, from)
         IN IF h < 0 THEN <<>>
            ELSE <<h>> \o HitsFrom(Tail(ql), tl, h + 1)

HitList(q, t) == HitsFrom(Lower(q), Lower(t), 0)

\* the consecutive-run and the word-boundary bonuses the hits h earn in t
RunBonus(h) == 3 * Cardinality({k \in 2..Len(h) : h[k] = h[k - 1] + 1})
EdgeBonus(t, h) ==
    2 * Cardinality({k \in 1..Len(h) : BoundaryBonusAt(t, h[k]) > 0})

\* C23: of two texts of equal length that match the same query with equal
\* consecutive-run and word-boundary bonuses, the one whose last hit is
\* nearer the end scores at least as high as the other.
C23_ShortTailScoresHigher ==
    (/\ Matched
     /\ fz.matched
     /\ fz.query # <<>>
     /\ fz.text \in PlainTexts(Len(fz.text)))
    => \A t2 \in PlainTexts(Len(fz.text)) :
          LET h == HitList(fz.query, fz.text)
              g == HitList(fz.query, t2)
              m2 == fuzzy_match(fz.query, t2)
          IN (/\ m2.matched
              /\ RunBonus(g) = RunBonus(h)
              /\ EdgeBonus(t2, g) = EdgeBonus(fz.text, h)
              /\ g[Len(g)] < h[Len(h)])
             => fz.score >= m2.score

\* C24: a Char(c) event appends exactly c to the query, a Backspace on a
\* non-empty query removes exactly its last character, and either one leaves
\* results = filter_fn(new query, snapshot) and cursor = 0, whatever the
\* cursor was.
C24_EditsResetCursor ==
    [][/\ \A c \in Printable :
             Applied(KeyEvent(KEY_CHAR, c)) =>
                /\ state'.query = Append(state.query, c)
                /\ state'.results = filter_fn(state'.query, candidates)
                /\ state'.cursor = 0
       /\ (Applied(Backspace) /\ state.query # <<>>) =>
             /\ Len(state'.query) = Len(state.query) - 1
             /\ IsPrefix(state'.query, state.query)
             /\ state'.results = filter_fn(state'.query, candidates)
             /\ state'.cursor = 0]_vars

\* the end of EditScript on two candidates: the Backspace and the second "a"
\* were both applied with the cursor on the second row
C24_Witness ==
    /\ scripted
    /\ script = EditScript
    /\ pos = Len(EditScript)
    /\ pc = "loop"
    /\ candidates = TwoTests
    /\ state.query = <<"a">>
    /\ Len(state.results) = 2
    /\ state.cursor = 0

\* a decode call that has returned and whose first unit was u
ReturnedAfter(u) == dec.at = "ret" /\ dec.reads # <<>> /\ dec.reads[1] = u

\* C25: a decode call whose first unit is not ESC reads that one unit only:
\* "no data" gives no event, CR or LF gives Enter, DEL or BS gives
\* Backspace, any other printable unit u gives Char(u), any other unit gives
\* no event.
C25_SingleUnitClassified ==
    \A u \in (Units \cup {NoData}) \ {ESC} :
       ReturnedAfter(u) =>
          /\ dec.reads = <<u>>
          /\ u = NoData => dec.result = None
          /\ u \in {CR, LF} => dec.result = Some(Enter)
          /\ u \in {DEL, BS} => dec.result = Some(Backspace)
          /\ u \in Printable => dec.result = Some(KeyEvent(KEY_CHAR, u))
          /\ u \notin {NoData, CR, LF, DEL, BS} \cup Printable
                => dec.result = None

\* a call that read a line-feed and returned Enter
C25_Witness ==
    /\ ReturnedAfter(LF)
    /\ dec.reads = <<LF>>
    /\ dec.result = Some(Enter)

\* C26: whenever a frame has been written, it starts on the row every
\* frame of the session started on, each of its lines is on a row that was
\* clear, the output cursor is on its last line, and every row below it
\* that an older, longer frame used is blank.
C26_FrameOverwritesCleanly ==
    pc = "read" =>
       /\ term.start = 0
       /\ term.row = Len(frame) - 1
       /\ Len(term.rows) >= Len(frame)
       /\ \A k \in 1..Len(term.rows) :
             term.rows[k] = IF k <= Len(frame) THEN frame[k] ELSE Blank

\* a frame of three lines written where one of seventeen lines had been
C26_Witness ==
    /\ pc = "read"
    /\ Len(frame) = 3
    /\ Len(term.rows) = MAX_VISIBLE_RESULTS + 2
    /\ term.rows[Len(term.rows)] = Blank
    /\ term.tail = <<"erase", "frame">>

\* the row of the screen on which line k of the last frame is
Shown(k) == term.rows[term.start + k]

\* C27: an iteration erases, renders, decodes and applies in that order and
\* applies at most one event: whenever input is read, the last thing
\* written is a frame of the current state, so the first read follows a
\* frame of the initial state and every applied event a frame of the state
\* it is applied to; the state changes only in the step that ends a decode
\* call, and the next read follows a new frame.
C27_FrameBeforeEveryEvent ==
    /\ [](pc = "read" =>
             /\ term.tail[Len(term.tail)] = "frame"
             /\ frame = render(state)
             /\ \A k \in 1..Len(frame) : Shown(k) = frame[k])
    /\ [][/\ state' # state => (pc = "read" /\ pc' = "loop")
          /\ (pc = "loop" /\ pc' = "read") =>
                (state' = state /\ frame' = render(state))]_vars

\* the frame of the query "a", written after the frame of the initial state
\* and the Char event, and before the next read
C27_Witness ==
    /\ pc = "read"
    /\ dec = DecodeStart
    /\ event = Some(KeyEvent(KEY_CHAR, "a"))
    /\ state.query = <<"a">>
    /\ frame[1].text = <<"a">>
    /\ term.tail = <<"erase", "frame">>

\* C28: done becomes true only in the step that applies Enter or Escape,
\* and a read that ends no decode call or ends it without an event leaves
\* the picker state as it was.
C28_OnlyKeysEndSession ==
    [][/\ (~state.done /\ state'.done) =>
             (Applied(Enter) \/ Applied(Escape))
       /\ (pc = "read" /\ pc' = "read") => state' = state
       /\ (pc = "read" /\ pc' = "loop" /\ event' = None) => state' = state]_vars

\* a poll that gave no event, in a session with a typed query still running
C28_Witness ==
    /\ pc = "loop"
    /\ event = None
    /\ ~state.done
    /\ state.query = <<"a", "u">>
    /\ prev_lines > 0

C30_EscapeUnitsNeverTyped ==
    [][/\ state'.query # state.query =>
             /\ dec.at = "ch"
             /\ \/ \E u \in Printable :
                      /\ event' = Some(KeyEvent(KEY_CHAR, u))
                      /\ state'.query = Append(state.query, u)
                \/ /\ event' = Some(Backspace)
                   /\ IsPrefix(state'.query, state.query)
       /\ (pc = "read" /\ dec.at \in {"seq1", "seq2"} /\ pc' = "loop") =>
             \/ event' \in {Some(ArrowUp), Some(ArrowDown)}
                   /\ state'.query = state.query
             \/ event' = Some(Escape) /\ state'.done
       /\ state.done => pc' # "read"]_vars

\* '[' and 'A' typed as first units, then an ESC-initiated call ended the
\* session
C30_Witness ==
    /\ pc = "loop"
    /\ state.done
    /\ event = Some(Escape)
    /\ state.query = <<"[", "A">>

\* run_picker has returned a candidate: it is in the snapshot and it is the
\* entry of filter_fn(final query, snapshot) under the cursor
ReturnedFromResults ==
    /\ ret[1] \in Range(candidates)
    /\ 0 <= state.cursor
    /\ state.cursor < Len(filter_fn(state.query, candidates))
    /\ ret[1] = filter_fn(state.query, candidates)[state.cursor + 1]

\* C31 as stated: a returned candidate is an element of the snapshot and the
\* entry of filter_fn(final query, snapshot) at an index below
\* MAX_VISIBLE_RESULTS, and the entry ranked 15th, the first being ranked
\* 1st, or later is never the one returned.
C31_FifteenthNeverReturned ==
    (pc = "returned" /\ ret # None) =>
       /\ ReturnedFromResults
       /\ state.cursor < MAX_VISIBLE_RESULTS
       /\ state.cursor + 1 < MAX_VISIBLE_RESULTS

\* C31 amended: a returned candidate is an element of the snapshot and the
\* entry of filter_fn(final query, snapshot) at an index below
\* MAX_VISIBLE_RESULTS: the entry at index 15 (ranked 16th) or later is
\* never the one returned.
C31_ReturnedIsVisibleResult ==
    (pc = "returned" /\ ret # None) =>
       /\ ReturnedFromResults
       /\ state.cursor < MAX_VISIBLE_RESULTS

\* sixteen candidates, the cursor pressed down to the last visible row, and
\* Enter: the entry at index 14, ranked 15th, is returned
C31_Witness ==
    /\ pc = "returned"
    /\ candidates = ManyFiles
    /\ Len(state.results) = MAX_VISIBLE_RESULTS + 1
    /\ state.cursor = MAX_VISIBLE_RESULTS - 1
    /\ ret = Some(ManyFiles[MAX_VISIBLE_RESULTS])

\* the rows of the screen that are highlighted
HighlightedOnScreen ==
    {k \in 1..Len(term.rows) : term.rows[k].kind = "highlight"}

\* C32: whenever the session waits for a key with results to show, the
\* frame last written, as the screen shows it, has exactly one highlighted
\* row and that row shows results[cursor]; an Enter applied then selects
\* the text of that row, and run_picker returns it; when the frame shows
\* the placeholder, no row is highlighted and Enter selects nothing.
C32_EnterAcceptsHighlighted ==
    /\ [](pc = "read" =>
             IF state.results # <<>>
             THEN /\ Highlighted(frame) = {state.cursor + 3}
                  /\ HighlightedOnScreen = {state.cursor + 3}
                  /\ Shown(state.cursor + 3).text
                        = state.results[state.cursor + 1]
             ELSE /\ Highlighted(frame) = {}
                  /\ HighlightedOnScreen = {}
                  /\ Shown(3).kind = "placeholder")
    /\ [][/\ Applied(Enter) =>
                IF HighlightedOnScreen = {}
                THEN state'.selected = None
                ELSE \E k \in HighlightedOnScreen :
                        state'.selected = Some(term.rows[k].text)
          /\ (Returns /\ event = Some(Enter)) =>
                /\ ret' = state.selected
                /\ term.rows = term'.rows]_vars

\* Enter applied with the second of two results highlighted on the screen
C32_Witness ==
    /\ pc = "loop"
    /\ event = Some(Enter)
    /\ state.done
    /\ state.query = <<"a">>
    /\ state.cursor = 1
    /\ HighlightedOnScreen = {4}
    /\ state.selected = Some(term.rows[4].text)

\* the step that ends a decode call whose first unit was ESC
EscCallEnds == pc = "read" /\ dec.at \in {"seq1", "seq2"} /\ pc' = "loop"

\* the step that ends a decode call whose first unit was CR or LF
EnterCallEnds == pc = "read" /\ dec.at = "ch" /\ event' = Some(Enter)

\* once the session is done nothing more is rendered or read, and
\* run_picker returns
NothingAfterDone ==
    /\ [][state.done =>
             /\ pc' = "returned"
             /\ frame' = frame
             /\ term'.rows = term.rows
             /\ pos' = pos]_vars
    /\ (state.done ~> pc = "returned")

\* C33 as stated: a decode call whose first unit is CR, LF or ESC ends the
\* session in that iteration; run_picker then returns without another frame
\* or read.
C33_TerminatingUnitEndsSession ==
    /\ [][(EnterCallEnds \/ EscCallEnds) => state'.done]_vars
    /\ NothingAfterDone

\* C33 amended: the same for CR, LF and for an ESC whose decode call yields
\* Escape; an ESC that begins an arrow sequence yields the arrow event and
\* the session goes on.
C33_TerminatingKeyEndsSession ==
    /\ [][/\ EnterCallEnds => state'.done
          /\ (EscCallEnds /\ event' = Some(Escape)) => state'.done
          /\ (EscCallEnds /\ event' # Some(Escape)) =>
                (event' \in {Some(ArrowUp), Some(ArrowDown)} /\ ~state'.done)]_vars
    /\ NothingAfterDone

\* run_picker has returned after an ESC that was followed by a unit that
\* begins no arrow sequence; the frame of the typed query is the last one
C33_Witness ==
    /\ pc = "returned"
    /\ event = Some(Escape)
    /\ state.done
    /\ state.query = <<"u">>
    /\ frame[1].text = <<"u">>
    /\ ret = None

====
